---- MODULE Spec2Model ----
(***************************************************************************)
(* Model of src/src/remove.ts: Remove(target), the recursive deletion of   *)
(* a directory tree (existence probe, directory listing, per-leaf unlink   *)
(* with forced-removal retry, final recursive purge), over a small file    *)
(* system with regular files, directories, sockets, FIFOs and symbolic     *)
(* links.  Every filesystem call is one action together with the           *)
(* JavaScript continuation that runs when its callback fires.              *)
(***************************************************************************)
EXTENDS Integers, Sequences, FiniteSets, Bags, TLC

\* ------------------------------------------------------------------ bounds
\* Deepest directory level below the target that a tree may have.
MaxDepth == 2
\* Number of Remove(target) calls the caller makes one after the other.
MaxCalls == 2

\* ------------------------------------------------------------- file system
\* A path is the sequence of its components.  The target is "r"; "o" is a
\* directory outside the target's tree; "m" never exists.
Target == <<"r">>
Outside == <<"o">>
OutsideFile == <<"o", "a">>
Missing == <<"m">>
\* What a failed path resolution yields in place of a path.
NoPath == <<"ENOENT">>

\* The directory at level i below the target: r, r/b, r/b/b, ...
Spine(i) == [j \in 1..(i + 1) |-> IF j = 1 THEN "r" ELSE "b"]
\* The non-directory entry "a" inside the directory at level i.
LeafAt(i) == Append(Spine(i), "a")

\* Physical locations a node can occupy.
Paths ==
    {Spine(i) : i \in 0..MaxDepth} \cup {LeafAt(i) : i \in 0..(MaxDepth - 1)}
        \cup {Outside, OutsideFile}

\* Base names an entry of a directory can have.
Names == {"a", "b"}

NoNode == [kind |-> "none", to |-> <<>>]
Plain(k) == [kind |-> k, to |-> <<>>]
LinkTo(t) == [kind |-> "link", to |-> t]

\* What the target, a sub-directory slot and a leaf slot may initially hold.
RootNodes == {NoNode, Plain("dir"), Plain("file"), LinkTo(Outside), LinkTo(Missing)}
SpineNodes == {NoNode, Plain("dir")}
LeafNodes ==
    {NoNode, Plain("file"), Plain("socket"), Plain("fifo"),
     LinkTo(Outside), LinkTo(Missing)}

NodeAt(f, p) == IF p \in DOMAIN f THEN f[p] ELSE NoNode

Front(p) == SubSeq(p, 1, Len(p) - 1)
Last(p) == p[Len(p)]

\* realpath(3): resolve the components `rest` one at a time from the
\* physical directory `cur`, following symbolic links.  Link targets are
\* absolute.  (No link of the model points at a link, so resolution ends.)
RECURSIVE Walk(_, _, _)
Walk(f, cur, rest) ==
    IF rest = <<>> THEN cur
    ELSE LET cand == Append(cur, Head(rest))
             n == NodeAt(f, cand)
         IN  IF n.kind = "none" THEN NoPath
             ELSE IF n.kind = "link"
                  THEN LET t == Walk(f, <<>>, n.to)
                       IN  IF t = NoPath THEN NoPath ELSE Walk(f, t, Tail(rest))
             ELSE IF Tail(rest) # <<>> /\ n.kind # "dir" THEN NoPath
             ELSE Walk(f, cand, Tail(rest))

Realpath(f, p) == Walk(f, <<>>, p)

\* Where the entry named by p physically lives: the parent directory is
\* resolved through links, the last component is not (lstat, unlink, rm).
LPath(f, p) ==
    LET parent == Realpath(f, Front(p))
    IN  IF parent = NoPath THEN NoPath ELSE Append(parent, Last(p))

LNode(f, p) == NodeAt(f, LPath(f, p))

IsPrefix(p, q) == Len(p) <= Len(q) /\ SubSeq(q, 1, Len(p)) = p


\* All orders in which the elements of a finite set can be enumerated.
Orderings(S) ==
    {s \in [1..Cardinality(S) -> S] : \A i, j \in DOMAIN s : s[i] = s[j] => i = j}

\* --------------------------------------------------------------- PathProbe
\* A probe that answers true when realpath reports an error.
ValidIgnoresError(f, p) ==
    LET path == Realpath(f, p)
    IN  IF path = NoPath THEN TRUE ELSE path # <<>>

\* valid(): realpath succeeded and returned a non-empty path.
Valid(f, p) ==
    LET path == Realpath(f, p)
    IN  IF path = NoPath THEN FALSE ELSE path # <<>>

\* -------------------------------------------------------------- TreeReader
\* The error FS.readdir reports for a location that is no directory.
ReaddirError(f, loc) ==
    LET phys == Realpath(f, loc)
    IN  IF phys = NoPath THEN "ENOENT"
        ELSE IF NodeAt(f, phys).kind # "dir" THEN "ENOTDIR"
        ELSE "none"

\* Results FS.readdir can deliver: a directory is listed, or refused (EACCES).
ReaddirOutcomes(f, loc) ==
    IF ReaddirError(f, loc) # "none" THEN {ReaddirError(f, loc)} ELSE {"ok", "EACCES"}

\* The FS.Dirent objects of a directory (withFileTypes: true).
Dirents(f, loc) ==
    LET phys == Realpath(f, loc)
    IN  {[name |-> n, kind |-> NodeAt(f, Append(phys, n)).kind] :
            n \in {m \in Names : NodeAt(f, Append(phys, m)).kind # "none"}}

\* A remap that classifies with the link followed (stat instead of lstat).
RemapFollowsLinks(loc, files) ==
    [i \in 1..Len(files) |->
        [name |-> files[i].name,
         path |-> Append(loc, files[i].name),
         properties |-> [file |-> files[i].kind = "file",
                         directory |-> files[i].kind \in {"dir", "link"},
                         socket |-> files[i].kind = "socket",
                         symbolic |-> files[i].kind = "link"]]]

\* A remap that takes whatever is no directory for a regular file.
RemapFileByDefault(loc, files) ==
    [i \in 1..Len(files) |->
        [name |-> files[i].name,
         path |-> Append(loc, files[i].name),
         properties |-> [file |-> files[i].kind # "dir",
                         directory |-> files[i].kind = "dir",
                         socket |-> files[i].kind = "socket",
                         symbolic |-> files[i].kind = "link"]]]

\* remap(files): one descriptor per Dirent, path = resolve(location, name).
Remap(loc, files) ==
    [i \in 1..Len(files) |->
        [name |-> files[i].name,
         path |-> Append(loc, files[i].name),
         properties |-> [file |-> files[i].kind = "file",
                         directory |-> files[i].kind = "dir",
                         socket |-> files[i].kind = "socket",
                         symbolic |-> files[i].kind = "link"]]]

NoDescriptor ==
    [name |-> "", path |-> <<>>,
     properties |-> [file |-> FALSE, directory |-> FALSE,
                     socket |-> FALSE, symbolic |-> FALSE]]

\* ---------------------------------------------------- deletion primitives
\* The file system without the entry p names (nothing beneath it touched).
Detach(f, p) ==
    IF LPath(f, p) \in DOMAIN f THEN [f EXCEPT ![LPath(f, p)] = NoNode] ELSE f

\* Results FS.unlink can deliver for p.
UnlinkOutcomes(f, p) ==
    IF LNode(f, p).kind = "none" THEN {"ENOENT"}
    ELSE IF LNode(f, p).kind = "dir" THEN {"EISDIR"}
    ELSE {"ok", "EPERM", "EBUSY"}

\* FS.unlink(p) ending with result e.
Unlink(f, p, e) == IF e = "ok" THEN Detach(f, p) ELSE f

\* Results FS.rm(p, { force: true }) can deliver: absence is success.
RmForceOutcomes(f, p) ==
    IF LNode(f, p).kind = "none" THEN {"ok"}
    ELSE IF LNode(f, p).kind = "dir" THEN {"ERR_FS_EISDIR"}
    ELSE {"ok", "EPERM"}

\* A forced removal that reports success without removing the entry.
RmForceKeeps(f, p, e) == f

\* FS.rm(p, { force: true }) ending with result e.
RmForce(f, p, e) == IF e = "ok" THEN Detach(f, p) ELSE f

\* Results FS.rm(p, { force: true, recursive: true }) can deliver.
PurgeOutcomes(f, p) ==
    IF LNode(f, p).kind = "none" THEN {"ok"} ELSE {"ok", "EBUSY"}

\* A purge that only removes p itself, and only when nothing is beneath it.
RmShallow(f, p, e) ==
    IF e = "ok" /\ \A q \in DOMAIN f : IsPrefix(LPath(f, p), q) /\ q # LPath(f, p)
                                          => f[q].kind = "none"
    THEN Detach(f, p)
    ELSE f

\* FS.rm(p, { force: true, recursive: true }) ending with result e: the
\* entry p names goes with everything physically beneath it; a link is not
\* followed.  A failed purge is modelled as leaving the tree as it was.
RmRecursive(f, p, e) ==
    IF e = "ok"
    THEN [q \in DOMAIN f |-> IF IsPrefix(LPath(f, p), q) THEN NoNode ELSE f[q]]
    ELSE f

\* Line 85, `(exception.code = "EPERM") && ...`: the assignment's value is
\* the string assigned, which is truthy whatever code the error carried.
RetryCondition(code) ==
    LET assigned == "EPERM"
    IN  assigned # ""

\* Line 88, `(exception !== null) && console.warn(...)`, where a callback
\* without error carries null ("ok" here).
WarnCondition(exception) == exception # "ok"


\* ------------------------------------------------------------------- state
VARIABLES
    fs,          \* the file system: physical path -> node
    pc,          \* where the Remove invocation stands
    stack,       \* per directory being walked: the directory, its handlers left
    location,    \* the directory descriptors() is listing
    descriptor,  \* the leaf clean() is working on
    calls,       \* Remove(target) calls started so far
    result,      \* how the latest call's promise settled: none, success, failure
    issued,      \* filesystem calls of the current invocation, with results
    attempts,    \* how often each filesystem call was issued (this invocation)
    settled,     \* entries whose clean() promise has resolved (this invocation)
    warned,      \* leaves console.warn was called for (this invocation)
    crash,       \* the filesystem call whose callback threw, if any
    fs0,         \* the file system when the current invocation started
    done,        \* per returned call, the file system before and after it
    git,         \* the git process a clone strategy started after its Remove
    procs,       \* the Remove invocations of concurrent clones, one per target
    alive,       \* the process has not ended on an uncaught exception
    clone,       \* the promise of the clone strategy that started git
    main         \* where Main stands, and the results object it builds

vars ==
    <<fs, pc, stack, location, descriptor, calls, result, issued, attempts,
      settled, warned, crash, fs0, done, git, procs, alive, clone, main>>

Call(op, path, res) == [op |-> op, path |-> path, res |-> res]
\* The bag b with one more issue of the filesystem call op on path.
Counted(b, op, path) == b (+) SetToBag({[op |-> op, path |-> path]})
NoCrash == Call("none", <<>>, "none")
NoGit == [strategy |-> "none", state |-> "none"]

\* How a git process can end: exit code 0, another exit code, killed by a
\* signal (the exit code is null), or never spawned (an error, no exit).
GitOutcomes == {"zero", "nonzero", "signal", "error"}

\* The promise a clone strategy returned: not yet created.
NoClone == [promise |-> "none", logged |-> FALSE, outcome |-> "none"]

\* The strategies in the order Main runs them, and the flag of each in
\* state.results.
Strategies == <<"Spawn", "Execute", "Wrapper", "Shell">>
Flags == <<"spawn", "execFile", "exec", "shell">>

\* Main before it has started.
NoMain ==
    [at |-> 0, phase |-> "none", cli |-> {}, mark |-> 0,
     results |-> [f \in {"spawn", "execFile", "exec", "shell"} |-> FALSE],
     error |-> FALSE, promise |-> "none", ran |-> {}, succeeded |-> {}, failed |-> 0]

\* The targets of the clones started together, disjoint paths.
Targets == <<Target, Outside>>

\* A Remove(t) invocation that has not begun.
IdleInv(t) ==
    [target |-> t, pc |-> "idle", stack |-> <<>>, location |-> <<>>,
     descriptor |-> NoDescriptor, issued |-> {}]

\* A tree under the target: root is the target's node, spine[i] the
\* directory slot at level i, leaf[i] the entry "a" of the directory at
\* level i.  Outside the tree, the directory "o" holds the file "a".
Tree(root, spine, leaf) ==
    [p \in Paths |->
        IF p = Outside THEN Plain("dir")
        ELSE IF p = OutsideFile THEN Plain("file")
        ELSE IF p = Target THEN root
        ELSE IF Last(p) = "a" THEN leaf[Len(p) - 2]
        ELSE spine[Len(p) - 1]]

\* An entry exists only inside an existing directory.
WellFormed(f) ==
    \A p \in Paths :
        (Len(p) > 1 /\ f[p].kind # "none") => f[Front(p)].kind = "dir"

Init ==
    /\ \E root \in RootNodes, spine \in [1..MaxDepth -> SpineNodes],
          leaf \in [0..(MaxDepth - 1) -> LeafNodes] :
            /\ fs = Tree(root, spine, leaf)
            /\ WellFormed(Tree(root, spine, leaf))
    /\ pc = "idle"
    /\ stack = <<>>
    /\ location = <<>>
    /\ descriptor = NoDescriptor
    /\ calls = 0
    /\ result = "none"
    /\ issued = {}
    /\ attempts = EmptyBag
    /\ settled = {}
    /\ warned = {}
    /\ crash = NoCrash
    /\ fs0 = fs
    /\ done = <<>>
    /\ git = NoGit
    /\ procs = [i \in DOMAIN Targets |-> IdleInv(Targets[i])]
    /\ alive = TRUE
    /\ clone = NoClone
    /\ main = NoMain

\* ----------------------------------------------------------------- actions
\* A Remove whose finalize() is outside the `if (await valid())` block: an
\* absent target is still purged.
RemoveCallPurgesAnyway ==
    /\ pc \in {"idle", "returned"}
    /\ git = NoGit
    /\ calls < MaxCalls
    /\ calls' = calls + 1
    /\ fs0' = fs
    /\ attempts' = Counted(EmptyBag, "realpath", Target)
    /\ settled' = {}
    /\ warned' = {}
    /\ stack' = <<>>
    /\ descriptor' = NoDescriptor
    /\ result' = "none"
    /\ IF Valid(fs, Target)
       THEN /\ issued' = {Call("realpath", Target, "ok")}
            /\ pc' = "descriptors"
            /\ location' = Target
       ELSE /\ issued' = {Call("realpath", Target, "ENOENT")}
            /\ pc' = "finalize"
            /\ location' = <<>>
    /\ UNCHANGED <<fs, crash, done>>
    /\ UNCHANGED <<git, procs, alive, clone, main>>

\* Remove(target), lines 106-112 and 123-125: probe the target; absent, the
\* call returns at once; present, the top-level listing is requested.
\* (A strategy calls Remove before it starts git, never after.)
RemoveCall ==
    /\ pc \in {"idle", "returned"}
    /\ git = NoGit
    /\ calls < MaxCalls
    /\ calls' = calls + 1
    /\ fs0' = fs
    /\ attempts' = Counted(EmptyBag, "realpath", Target)
    /\ settled' = {}
    /\ warned' = {}
    /\ stack' = <<>>
    /\ descriptor' = NoDescriptor
    /\ IF Valid(fs, Target)
       THEN /\ issued' = {Call("realpath", Target, "ok")}
            /\ pc' = "descriptors"
            /\ location' = Target
            /\ result' = "none"
            /\ done' = done
       ELSE /\ issued' = {Call("realpath", Target, "ENOENT")}
            /\ pc' = "returned"
            /\ location' = <<>>
            /\ result' = "success"
            /\ done' = Append(done, [before |-> fs, after |-> fs])
    /\ UNCHANGED <<fs, crash>>
    /\ UNCHANGED <<git, procs, alive, clone, main>>

\* descriptors(location), lines 34-62: the readdir callback throws on an
\* error (an exception nobody catches: the promise is never settled and
\* the process ends), else resolves with the remapped entries, which the
\* caller starts to iterate.
Descriptors ==
    /\ pc = "descriptors"
    /\ \E e \in ReaddirOutcomes(fs, location) :
        /\ issued' = issued \cup {Call("readdir", location, e)}
        /\ attempts' = Counted(attempts, "readdir", location)
        /\ IF e # "ok"
           THEN /\ pc' = "crashed"
                /\ crash' = Call("readdir", location, e)
                /\ stack' = stack
           ELSE /\ \E files \in Orderings(Dirents(fs, location)) :
                        stack' = Append(stack, [dir |-> location,
                                                handlers |-> Remap(location, files)])
                /\ pc' = "iterate"
                /\ crash' = crash
    /\ UNCHANGED <<fs, location, descriptor, calls, result, settled, warned, fs0, done>>
    /\ UNCHANGED <<git, procs, alive, clone, main>>

\* A walk that goes on to finalize() as soon as any directory is done.
IterateFinalizesEarly ==
    /\ pc = "iterate"
    /\ LET top == stack[Len(stack)]
           rest == Front(stack)
       IN  IF top.handlers = <<>>
           THEN /\ stack' = rest
                /\ pc' = "finalize"
                /\ settled' = IF rest = <<>> THEN settled ELSE settled \cup {top.dir}
                /\ UNCHANGED <<location, descriptor>>
           ELSE /\ stack' = Append(rest, [top EXCEPT !.handlers = Tail(top.handlers)])
                /\ settled' = settled
                /\ IF Head(top.handlers).properties.directory
                   THEN /\ pc' = "descriptors"
                        /\ location' = Head(top.handlers).path
                        /\ descriptor' = descriptor
                   ELSE /\ pc' = "probe"
                        /\ descriptor' = Head(top.handlers)
                        /\ location' = location
    /\ UNCHANGED <<fs, calls, result, issued, attempts, warned, crash, fs0, done>>
    /\ UNCHANGED <<git, procs, alive, clone, main>>

\* A loop that stops one handler short: the directory's clean() resolves
\* with its last child not cleaned.
IterateReturnsEarly ==
    /\ pc = "iterate"
    /\ LET top == stack[Len(stack)]
           rest == Front(stack)
       IN  IF Len(top.handlers) <= 1
           THEN /\ stack' = rest
                /\ pc' = IF rest = <<>> THEN "finalize" ELSE "iterate"
                /\ settled' = IF rest = <<>> THEN settled ELSE settled \cup {top.dir}
                /\ UNCHANGED <<location, descriptor>>
           ELSE /\ stack' = Append(rest, [top EXCEPT !.handlers = Tail(top.handlers)])
                /\ settled' = settled
                /\ IF Head(top.handlers).properties.directory
                   THEN /\ pc' = "descriptors"
                        /\ location' = Head(top.handlers).path
                        /\ descriptor' = descriptor
                   ELSE /\ pc' = "probe"
                        /\ descriptor' = Head(top.handlers)
                        /\ location' = location
    /\ UNCHANGED <<fs, calls, result, issued, attempts, warned, crash, fs0, done>>
    /\ UNCHANGED <<git, procs, alive, clone, main>>

\* A clean() that removes the directory it has just emptied.
IterateRemovesShell ==
    /\ pc = "iterate"
    /\ LET top == stack[Len(stack)]
           rest == Front(stack)
       IN  IF top.handlers = <<>>
           THEN /\ stack' = rest
                /\ pc' = IF rest = <<>> THEN "finalize" ELSE "iterate"
                /\ settled' = IF rest = <<>> THEN settled ELSE settled \cup {top.dir}
                /\ UNCHANGED <<location, descriptor>>
           ELSE /\ stack' = Append(rest, [top EXCEPT !.handlers = Tail(top.handlers)])
                /\ settled' = settled
                /\ IF Head(top.handlers).properties.directory
                   THEN /\ pc' = "descriptors"
                        /\ location' = Head(top.handlers).path
                        /\ descriptor' = descriptor
                   ELSE /\ pc' = "probe"
                        /\ descriptor' = Head(top.handlers)
                        /\ location' = location
    /\ fs' = IF stack[Len(stack)].handlers = <<>> /\ Len(stack) > 1
             THEN Detach(fs, stack[Len(stack)].dir)
             ELSE fs
    /\ UNCHANGED <<calls, result, issued, attempts, warned, crash, fs0, done>>
    /\ UNCHANGED <<git, procs, alive, clone, main>>

\* The for-await loops of lines 71-73 and 113-115 and the switch of clean(),
\* lines 64-78: take the next descriptor of the innermost directory and
\* clean it (list it when it is a directory, probe it otherwise); with none
\* left, that directory's clean() resolves and its parent's loop goes on,
\* and the top-level loop goes on to finalize().
Iterate ==
    /\ pc = "iterate"
    /\ LET top == stack[Len(stack)]
           rest == Front(stack)
       IN  IF top.handlers = <<>>
           THEN /\ stack' = rest
                /\ pc' = IF rest = <<>> THEN "finalize" ELSE "iterate"
                /\ settled' = IF rest = <<>> THEN settled ELSE settled \cup {top.dir}
                /\ UNCHANGED <<location, descriptor>>
           ELSE /\ stack' = Append(rest, [top EXCEPT !.handlers = Tail(top.handlers)])
                /\ settled' = settled
                /\ IF Head(top.handlers).properties.directory
                   THEN /\ pc' = "descriptors"
                        /\ location' = Head(top.handlers).path
                        /\ descriptor' = descriptor
                   ELSE /\ pc' = "probe"
                        /\ descriptor' = Head(top.handlers)
                        /\ location' = location
    /\ UNCHANGED <<fs, calls, result, issued, attempts, warned, crash, fs0, done>>
    /\ UNCHANGED <<git, procs, alive, clone, main>>

\* clean() of a leaf, lines 78-83: probe the leaf; when it exists FS.unlink
\* is issued; when it does not, nothing is issued and nothing resolves the
\* promise clean() awaits.
Probe ==
    /\ pc = "probe"
    /\ attempts' = Counted(attempts, "realpath", descriptor.path)
    /\ IF Valid(fs, descriptor.path)
       THEN /\ issued' = issued \cup {Call("realpath", descriptor.path, "ok")}
            /\ pc' = "unlink"
       ELSE /\ issued' = issued \cup {Call("realpath", descriptor.path, "ENOENT")}
            /\ pc' = "pending"
    /\ UNCHANGED <<fs, stack, location, descriptor, calls, result, settled, warned,
                   crash, fs0, done>>
    /\ UNCHANGED <<git, procs, alive, clone, main>>

\* The FS.unlink callback, lines 83-91: on an error the forced removal is
\* issued when the retry condition holds; without one the promise resolves.
UnlinkDone ==
    /\ pc = "unlink"
    /\ \E e \in UnlinkOutcomes(fs, descriptor.path) :
        /\ fs' = Unlink(fs, descriptor.path, e)
        /\ issued' = issued \cup {Call("unlink", descriptor.path, e)}
        /\ attempts' = Counted(attempts, "unlink", descriptor.path)
        /\ IF e # "ok"
           THEN IF RetryCondition(e)
                THEN /\ pc' = "retry"
                     /\ UNCHANGED <<settled, warned>>
                ELSE /\ pc' = "iterate"
                     /\ settled' = settled \cup {descriptor.path}
                     /\ warned' = warned
           ELSE /\ pc' = "iterate"
                /\ settled' = settled \cup {descriptor.path}
                /\ warned' = IF WarnCondition(e)
                             THEN warned \cup {descriptor.path}
                             ELSE warned
    /\ UNCHANGED <<stack, location, descriptor, calls, result, crash, fs0, done>>
    /\ UNCHANGED <<git, procs, alive, clone, main>>

\* A retry that is repeated until the forced removal succeeds.
RetryDoneRepeats ==
    /\ pc = "retry"
    /\ \E e \in RmForceOutcomes(fs, descriptor.path) :
        /\ fs' = RmForce(fs, descriptor.path, e)
        /\ issued' = issued \cup {Call("rm", descriptor.path, e)}
        /\ attempts' = Counted(attempts, "rm", descriptor.path)
        /\ pc' = IF e = "ok" THEN "iterate" ELSE "retry"
        /\ settled' = IF e = "ok" THEN settled \cup {descriptor.path} ELSE settled
    /\ UNCHANGED <<stack, location, descriptor, calls, result, warned, crash, fs0, done>>
    /\ UNCHANGED <<git, procs, alive, clone, main>>

\* The FS.rm callback of the retry, lines 85-90: whatever the result, it
\* resolves the inner promise and then the promise clean() awaits.
RetryDone ==
    /\ pc = "retry"
    /\ \E e \in RmForceOutcomes(fs, descriptor.path) :
        /\ fs' = RmForce(fs, descriptor.path, e)
        /\ issued' = issued \cup {Call("rm", descriptor.path, e)}
        /\ attempts' = Counted(attempts, "rm", descriptor.path)
    /\ pc' = "iterate"
    /\ settled' = settled \cup {descriptor.path}
    /\ UNCHANGED <<stack, location, descriptor, calls, result, warned, crash, fs0, done>>
    /\ UNCHANGED <<git, procs, alive, clone, main>>

\* finalize(), lines 96-104, and the return of Remove, lines 117-125: the
\* FS.rm callback throws on an error (uncaught, as in descriptors), else
\* the call returns.
Finalize ==
    /\ pc = "finalize"
    /\ \E e \in PurgeOutcomes(fs, Target) :
        /\ fs' = RmRecursive(fs, Target, e)
        /\ issued' = issued \cup {Call("purge", Target, e)}
        /\ attempts' = Counted(attempts, "purge", Target)
        /\ IF e # "ok"
           THEN /\ pc' = "crashed"
                /\ crash' = Call("purge", Target, e)
                /\ UNCHANGED <<result, done>>
           ELSE /\ pc' = "returned"
                /\ result' = "success"
                /\ done' = Append(done, [before |-> fs0, after |-> RmRecursive(fs, Target, e)])
                /\ crash' = crash
    /\ UNCHANGED <<stack, location, descriptor, calls, settled, warned, fs0>>
    /\ UNCHANGED <<git, procs, alive, clone, main>>

\* ------------------------------------------------------- clone strategies
\* A strategy that starts git without awaiting the Remove it called.
StartGitUnawaited(strategy) ==
    /\ pc \notin {"idle", "pending", "crashed"}
    /\ git = NoGit
    /\ git' = [strategy |-> strategy, state |-> "running"]
    /\ clone' = [NoClone EXCEPT !.promise = "pending"]
    /\ UNCHANGED <<fs, pc, stack, location, descriptor, calls, result, issued,
                   attempts, settled, warned, crash, fs0, done, procs, alive, main>>

\* What follows `await Remove( directory )` in each strategy of clone.ts:
\* the continuation runs once Remove's promise has resolved, builds the
\* command line and starts the git process.
StartGit(strategy) ==
    /\ pc = "returned"
    /\ result = "success"
    /\ git = NoGit
    /\ git' = [strategy |-> strategy, state |-> "running"]
    /\ clone' = [NoClone EXCEPT !.promise = "pending"]
    /\ UNCHANGED <<fs, pc, stack, location, descriptor, calls, result, issued,
                   attempts, settled, warned, crash, fs0, done, procs, alive, main>>

\* Spawn, lines 76-126: Subprocess.spawn( "git", ... ).
Spawn == StartGit("Spawn")

\* Execute, lines 204-253: promisified Subprocess.execFile( "git", ... ).
Execute == StartGit("Execute")

\* Shell, lines 294-343: promisified Subprocess.execFile( "git", ... ).
Shell == StartGit("Shell")

\* Wrapper, lines 384-434: Subprocess.execFile( "git", ..., callback ).
Wrapper == StartGit("Wrapper")

Next ==
    \/ RemoveCall
    \/ Descriptors
    \/ Iterate
    \/ Probe
    \/ UnlinkDone
    \/ RetryDone
    \/ Finalize
    \/ Spawn
    \/ Execute
    \/ Shell
    \/ Wrapper

Spec == Init /\ [][Next]_vars

\* The event loop runs every callback that is due.
FairSpec == Spec /\ WF_vars(Next)

TypeOK ==
    /\ pc \in {"idle", "descriptors", "iterate", "probe", "unlink", "retry",
               "finalize", "returned", "crashed", "pending"}
    /\ result \in {"none", "success", "failure"}
    /\ calls \in 0..MaxCalls
    /\ DOMAIN fs = Paths


\* ------------------------------------------------------------- observation
\* An existence probe made by an observer of the file system.
Exists(f, p) == Realpath(f, p) # NoPath

\* The logical paths of the leaves a walk can meet.
Leaves == {LeafAt(i) : i \in 0..(MaxDepth - 1)}

\* Some filesystem call of the invocation was refused by the environment.
Faulted == \E c \in issued : c.res \in {"EACCES", "EPERM", "EBUSY"}

\* Nothing is left at or under the target.
Gone(f) == \A p \in Paths : IsPrefix(Target, p) => f[p].kind = "none"

\* ------------------------------------------------------------------ claims
\* C1: whenever a Remove(target) call has reported success, whatever was
\* under the target and whatever leaf failures occurred during the walk, an
\* existence probe of the target answers false.
C1_Postcondition ==
    (pc = "returned" /\ result = "success") => ~Exists(fs, Target)

\* C1 witness: a call that walked a tree, met a failing unlink, purged and
\* returned.
C1_Witness ==
    /\ pc = "returned"
    /\ result = "success"
    /\ Call("purge", Target, "ok") \in issued
    /\ \E c \in issued : c.op = "unlink" /\ c.res # "ok"

\* C2 (as claimed): a leaf whose probe answers false is treated as already
\* satisfied: its clean() settles, no unlink is issued for it, and the
\* invocation goes on to the purge (or ends on a thrown listing error).
C2_MissingLeafSatisfied ==
    \A p \in Leaves :
        (Call("realpath", p, "ENOENT") \in issued)
            ~> (/\ p \in settled
                /\ \A c \in issued : ~(c.op = "unlink" /\ c.path = p)
                /\ \/ \E c \in issued : c.op = "purge"
                   \/ pc = "crashed")

\* The trees C3 speaks of: the target is a directory, and everything under
\* it is a regular file, a directory or a symbolic link.
ClaimTree(f) ==
    /\ f[Target].kind = "dir"
    /\ \A p \in Paths : f[p].kind \in {"none", "file", "dir", "link"}

\* C3 (as claimed): for every existing tree of files, directories and
\* symbolic links, whatever the links point to, Remove on the root
\* eventually returns successfully with the whole structure gone (unless
\* the environment refused a filesystem call).
C3_DepthTolerance ==
    (calls = 0 /\ ClaimTree(fs))
        => <>(Faulted \/ (pc = "returned" /\ result = "success" /\ Gone(fs)))

\* C4: a second Remove(target) in succession never fails, and leaves the
\* file system as the first call left it, with the target absent.
C4_Idempotence ==
    /\ calls >= 2 => (pc \notin {"crashed", "pending"} /\ result # "failure")
    /\ \A i \in 2..Len(done) :
        done[i].after = done[1].after /\ ~Exists(done[i].after, Target)

\* C4 witness: the second call has returned after a first call that had a
\* tree to remove.
C4_Witness ==
    /\ Len(done) >= 2
    /\ pc = "returned"
    /\ done[1].before # done[1].after

\* C5: for a target whose existence probe is false, Remove returns success
\* having issued no listing, no unlink, no forced removal and no purge, and
\* the file system is as it was.
C5_NoOpOnAbsence ==
    Call("realpath", Target, "ENOENT") \in issued
        => /\ pc = "returned"
           /\ result = "success"
           /\ issued = {Call("realpath", Target, "ENOENT")}
           /\ fs = fs0

\* C5 witness: a first call on a target that is a dangling link has returned.
C5_Witness ==
    /\ calls = 1
    /\ pc = "returned"
    /\ fs[Target] = LinkTo(Missing)
    /\ Call("realpath", Target, "ENOENT") \in issued

\* C6 (as claimed): when the top-level listing fails, the call settles as
\* a failure its caller observes, and no purge is attempted.
C6_TopListingFails ==
    \A c \in issued :
        (c.op = "readdir" /\ c.path = Target /\ c.res # "ok")
            => /\ result = "failure"
               /\ \A d \in issued : d.op # "purge"

\* C7 (as claimed): a listing failure on a sub-directory does not abort
\* Remove: it is recorded as a warning and the walk goes on.
C7_SubListingAbsorbed ==
    \A c \in issued :
        (c.op = "readdir" /\ c.path # Target /\ c.res # "ok")
            => (c.path \in warned /\ pc # "crashed")

\* C8 (as claimed): when the purge reports an error other than not-found,
\* the call settles as a failure.
C8_FinalizeFails ==
    \A c \in issued :
        (c.op = "purge" /\ c.res \notin {"ok", "ENOENT"}) => result = "failure"

\* C9: a leaf whose unlink failed with permission-denied and whose forced
\* removal succeeded is gone, its clean() has settled, and it is not the
\* reason of any abort.
C9_LeafRetry ==
    \A p \in Leaves :
        (Call("unlink", p, "EPERM") \in issued /\ Call("rm", p, "ok") \in issued)
            => /\ LNode(fs, p).kind = "none"
               /\ p \in settled
               /\ crash.path # p
               /\ result # "failure"

\* C9 witness: such a leaf was retried and the call returned successfully.
C9_Witness ==
    /\ pc = "returned"
    /\ result = "success"
    /\ \E p \in Leaves :
        Call("unlink", p, "EPERM") \in issued /\ Call("rm", p, "ok") \in issued

\* C10 (as claimed): the forced removal is issued for a leaf only when its
\* unlink failed with permission-denied; after any other unlink failure no
\* forced removal of that leaf is issued.
C10_RetryOnlyOnPermissionDenied ==
    \A c \in issued :
        (c.op = "unlink" /\ c.res \notin {"ok", "EPERM"})
            => /\ ~(pc = "retry" /\ descriptor.path = c.path)
               /\ \A d \in issued : ~(d.op = "rm" /\ d.path = c.path)


\* ----------------------------------------------- observation (continued)
\* How often the filesystem call op was issued on path in this invocation.
Issues(op, path) == CopiesIn([op |-> op, path |-> path], attempts)

\* The logical paths of everything a walk can meet under the target.
Entries == {p \in Paths : IsPrefix(Target, p) /\ p # Target}

\* The purge has been invoked: FS.rm is in flight or its callback has run.
PurgeInvoked == pc = "finalize" \/ Issues("purge", Target) >= 1

\* The entries clean() has been called for: those probed or listed, and
\* the one about to be.
Started ==
    ({c.path : c \in {d \in issued : d.op \in {"realpath", "readdir"}}}
        \cup (IF pc = "probe" THEN {descriptor.path} ELSE {})
        \cup (IF pc = "descriptors" THEN {location} ELSE {})) \ {Target}

\* Every entry a listing of this invocation produced has had its clean()
\* resolve.
WalkSettled ==
    \A c \in issued :
        (c.op = "readdir" /\ c.res = "ok")
            => LET phys == Realpath(fs0, c.path)
               IN  \A n \in Names :
                    NodeAt(fs0, Append(phys, n)).kind # "none"
                        => Append(c.path, n) \in settled

\* The number of kind flags a descriptor has set.
FlagCount(d) ==
    (IF d.properties.file THEN 1 ELSE 0) + (IF d.properties.directory THEN 1 ELSE 0)
        + (IF d.properties.socket THEN 1 ELSE 0)
        + (IF d.properties.symbolic THEN 1 ELSE 0)

\* The descriptors the invocation holds: those still to clean, and the leaf
\* being cleaned.
HeldDescriptors ==
    UNION {{stack[i].handlers[j] : j \in DOMAIN stack[i].handlers} : i \in DOMAIN stack}
        \cup (IF descriptor = NoDescriptor THEN {} ELSE {descriptor})

\* -------------------------------------------------------- claims (continued)
\* C11 (as claimed): once clean() of a leaf has settled, a warning was
\* recorded for it if its unlink failed otherwise than with
\* permission-denied, or failed with permission-denied and the forced
\* removal failed too.
C11_FailureWarned ==
    \A p \in Leaves :
        (/\ p \in settled
         /\ \/ \E c \in issued : c.op = "unlink" /\ c.path = p
                                    /\ c.res \notin {"ok", "EPERM"}
            \/ /\ Call("unlink", p, "EPERM") \in issued
               /\ \E c \in issued : c.op = "rm" /\ c.path = p /\ c.res # "ok")
            => p \in warned

\* C12: within one invocation the purge is invoked at most once, exactly
\* once when a call on an existing target has returned, and only when every
\* clean() of the walk has settled; once it is invoked no walker operation
\* is pending or follows.
C12_PurgeOnceAfterWalk ==
    /\ Issues("purge", Target) <= 1
    /\ (pc = "returned" /\ Call("realpath", Target, "ok") \in issued)
            => Issues("purge", Target) = 1
    /\ PurgeInvoked
            => /\ stack = <<>>
               /\ WalkSettled
               /\ pc \in {"finalize", "returned", "crashed"}
               /\ \A p \in Entries : Issues("unlink", p) + Issues("rm", p) >= 1
                                        => p \in settled

\* C12 witness: the purge is in flight after a walk through a sub-directory
\* in which a forced removal was issued.
C12_Witness ==
    /\ pc = "finalize"
    /\ \E c \in issued : c.op = "readdir" /\ c.path # Target /\ c.res = "ok"
    /\ \E c \in issued : c.op = "rm"

\* C13 (as claimed): once the target exists and its top-level listing has
\* succeeded, the purge is eventually invoked.
C13_PurgeReached ==
    (Call("readdir", Target, "ok") \in issued) ~> PurgeInvoked

\* C14: the walk is sequential and depth-first: the entries whose clean()
\* is in flight lie on one branch (so at most one leaf, and never two
\* siblings), and a directory's clean() has resolved only if the clean()
\* of each of its children has.
C14_SequentialDepthFirst ==
    /\ LET inflight == Started \ settled
       IN  \A x, y \in inflight : IsPrefix(x, y) \/ IsPrefix(y, x)
    /\ \A x \in Entries :
        (Front(x) \in settled /\ LNode(fs0, x).kind # "none") => x \in settled

\* C14 witness: a leaf is being deleted inside a sub-directory after its
\* sibling-level leaf one level up has settled.
C14_Witness ==
    /\ pc = "unlink"
    /\ Len(descriptor.path) = 3
    /\ LeafAt(0) \in settled

\* C15: in an invocation whose target is a directory, a symbolic link in
\* the tree is never listed, a link that was unlinked is gone, no
\* filesystem call of the walk or the purge acts at or under the link's
\* target location, and that location is as it was.
C15_LinkNotFollowed ==
    fs0[Target].kind = "dir"
        => /\ fs[Outside] = fs0[Outside]
           /\ fs[OutsideFile] = fs0[OutsideFile]
           /\ \A c \in issued :
                c.op \in {"readdir", "unlink", "rm", "purge"}
                    => LET where == LPath(fs0, c.path)
                       IN  /\ ~IsPrefix(Outside, where)
                           /\ c.op = "readdir" => NodeAt(fs0, where).kind # "link"
           /\ \A p \in Leaves :
                (fs0[p].kind = "link" /\ Call("unlink", p, "ok") \in issued)
                    => fs[p].kind = "none"

\* C15 witness: the call has returned after unlinking a link that pointed
\* at the outside directory.
C15_Witness ==
    /\ pc = "returned"
    /\ \E p \in Leaves : fs0[p] = LinkTo(Outside) /\ Call("unlink", p, "ok") \in issued

\* C18: per leaf there is at most one unlink and at most one forced
\* removal, and a forced removal is issued only after an unlink of the same
\* leaf has failed.
C18_OneAttemptEach ==
    \A p \in Entries :
        /\ Issues("unlink", p) <= 1
        /\ Issues("rm", p) <= 1
        /\ (Issues("rm", p) >= 1 \/ (pc = "retry" /\ descriptor.path = p))
                => \E c \in issued : c.op = "unlink" /\ c.path = p /\ c.res # "ok"

\* C18 witness: a forced removal has failed and the walk has gone on.
C18_Witness ==
    /\ pc = "iterate"
    /\ \E c \in issued : c.op = "rm" /\ c.res # "ok"

\* C19: until the purge has acted, every directory that existed when the
\* invocation started, the target included, is still there; the walker
\* deletes only entries that are not directories, inside directories that
\* still exist.
C19_ShellsLeftToPurge ==
    (\A c \in issued : c.op # "purge")
        => /\ fs[Target] = fs0[Target]
           /\ \A p \in Paths : fs0[p].kind = "dir" => fs[p].kind = "dir"
           /\ \A c \in issued :
                (c.op \in {"unlink", "rm"} /\ c.res = "ok")
                    => /\ LNode(fs0, c.path).kind \notin {"dir", "none"}
                       /\ NodeAt(fs, Realpath(fs, Front(c.path))).kind = "dir"

\* C19 witness: the purge is about to act on a tree whose sub-directory
\* was emptied by the walker.
C19_Witness ==
    /\ pc = "finalize"
    /\ \E c \in issued : c.op = "unlink" /\ c.res = "ok" /\ Len(c.path) = 3

\* C20 (as claimed): every descriptor of a listing has exactly one kind
\* flag set.
C20_ExactlyOneFlag ==
    \A d \in HeldDescriptors : FlagCount(d) = 1

\* C20 (amended): every descriptor has at most one kind flag set, the one
\* of its node's kind when that is a regular file, a directory, a socket or
\* a symbolic link, and none for a node of another kind (a FIFO).
C20_AtMostOneFlag ==
    \A d \in HeldDescriptors :
        LET kind == LNode(fs0, d.path).kind
        IN  /\ FlagCount(d) <= 1
            /\ d.properties.file <=> kind = "file"
            /\ d.properties.directory <=> kind = "dir"
            /\ d.properties.socket <=> kind = "socket"
            /\ d.properties.symbolic <=> kind = "link"
            /\ FlagCount(d) = 0 <=> kind = "fifo"

\* C20 witness: a listing has produced the descriptor of a FIFO next to
\* that of a directory.
C20_Witness ==
    /\ \E d \in HeldDescriptors : FlagCount(d) = 0
    /\ \E d \in HeldDescriptors : d.properties.directory


\* C17: in each clone strategy git is started only once the Remove of the
\* destination has returned successfully, with the destination absent;
\* never while that Remove is in progress, has stopped or has failed.
C17_GitAfterRemove ==
    [][(git = NoGit /\ git' # NoGit)
            => /\ pc = "returned"
               /\ result = "success"
               /\ ~Exists(fs, Target)
               /\ \A c \in issued : c.op = "realpath" /\ c.path = Target /\ c.res = "ok"
                                        => Call("purge", Target, "ok") \in issued]_vars

\* C17 witness: the Wrapper strategy has started git after a Remove that
\* had a tree to remove.
C17_Witness ==
    /\ git = [strategy |-> "Wrapper", state |-> "running"]
    /\ Len(done) = 1
    /\ done[1].before # done[1].after


\* C21 (as claimed): Remove(target) removes nothing outside the tree
\* physically rooted at target: every node that is not at or under the
\* target's own path is as it was when the invocation started, also when
\* the target is a symbolic link to a directory.
C21_NothingOutsideRemoved ==
    \A p \in Paths : ~IsPrefix(Target, p) => fs[p] = fs0[p]

\* ------------------------------------------------------ concurrent clones
\* multiple() of clone.ts, lines 483-499, starts its clones together in one
\* process: their Remove invocations, on disjoint targets, interleave at
\* every filesystem call.  The actions below are those of one invocation,
\* for the invocation i of procs.

\* The variables of the single invocation, untouched here.
single ==
    <<pc, stack, location, descriptor, calls, result, issued, attempts,
      settled, warned, crash, fs0, done, git, clone, main>>

\* An error thrown inside a filesystem callback (lines 40 and 99) is an
\* uncaught exception: it ends the process, and every invocation with it.
EndsProcess(e) == e # "ok"

ConcInit ==
    /\ \E spine \in [1..MaxDepth -> SpineNodes],
          leaf \in [0..(MaxDepth - 1) -> LeafNodes] :
            /\ fs = Tree(Plain("dir"), spine, leaf)
            /\ WellFormed(Tree(Plain("dir"), spine, leaf))
    /\ pc = "idle"
    /\ stack = <<>>
    /\ location = <<>>
    /\ descriptor = NoDescriptor
    /\ calls = 0
    /\ result = "none"
    /\ issued = {}
    /\ attempts = EmptyBag
    /\ settled = {}
    /\ warned = {}
    /\ crash = NoCrash
    /\ fs0 = fs
    /\ done = <<>>
    /\ git = NoGit
    /\ procs = [i \in DOMAIN Targets |-> IdleInv(Targets[i])]
    /\ alive = TRUE
    /\ clone = NoClone
    /\ main = NoMain

\* Remove(target), lines 106-112 and 123-125.
ConcRemoveCall(i) ==
    /\ alive
    /\ procs[i].pc = "idle"
    /\ procs' = [procs EXCEPT ![i] =
            IF Valid(fs, procs[i].target)
            THEN [@ EXCEPT !.pc = "descriptors", !.location = procs[i].target,
                           !.issued = {Call("realpath", procs[i].target, "ok")}]
            ELSE [@ EXCEPT !.pc = "returned",
                           !.issued = {Call("realpath", procs[i].target, "ENOENT")}]]
    /\ UNCHANGED <<fs, alive>>
    /\ UNCHANGED single

\* descriptors(location), lines 34-62.
ConcDescriptors(i) ==
    /\ alive
    /\ procs[i].pc = "descriptors"
    /\ \E e \in ReaddirOutcomes(fs, procs[i].location) :
        /\ alive' = ~EndsProcess(e)
        /\ IF e # "ok"
           THEN procs' = [procs EXCEPT ![i] =
                    [@ EXCEPT !.pc = "crashed",
                              !.issued = @ \cup {Call("readdir", procs[i].location, e)}]]
           ELSE \E files \in Orderings(Dirents(fs, procs[i].location)) :
                    procs' = [procs EXCEPT ![i] =
                        [@ EXCEPT !.pc = "iterate",
                                  !.issued = @ \cup {Call("readdir", procs[i].location, e)},
                                  !.stack = Append(@, [dir |-> procs[i].location,
                                        handlers |-> Remap(procs[i].location, files)])]]
    /\ UNCHANGED fs
    /\ UNCHANGED single

\* The for-await loops and the switch of clean(), lines 64-78 and 113-115.
ConcIterate(i) ==
    /\ alive
    /\ procs[i].pc = "iterate"
    /\ LET top == procs[i].stack[Len(procs[i].stack)]
           rest == Front(procs[i].stack)
       IN  procs' = [procs EXCEPT ![i] =
                IF top.handlers = <<>>
                THEN [@ EXCEPT !.stack = rest,
                               !.pc = IF rest = <<>> THEN "finalize" ELSE "iterate"]
                ELSE IF Head(top.handlers).properties.directory
                THEN [@ EXCEPT !.stack = Append(rest,
                                    [top EXCEPT !.handlers = Tail(top.handlers)]),
                               !.pc = "descriptors",
                               !.location = Head(top.handlers).path]
                ELSE [@ EXCEPT !.stack = Append(rest,
                                    [top EXCEPT !.handlers = Tail(top.handlers)]),
                               !.pc = "probe",
                               !.descriptor = Head(top.handlers)]]
    /\ UNCHANGED <<fs, alive>>
    /\ UNCHANGED single

\* clean() of a leaf, lines 78-83.
ConcProbe(i) ==
    /\ alive
    /\ procs[i].pc = "probe"
    /\ procs' = [procs EXCEPT ![i] =
            IF Valid(fs, procs[i].descriptor.path)
            THEN [@ EXCEPT !.pc = "unlink",
                           !.issued = @ \cup {Call("realpath", procs[i].descriptor.path, "ok")}]
            ELSE [@ EXCEPT !.pc = "pending",
                           !.issued = @ \cup {Call("realpath", procs[i].descriptor.path,
                                                   "ENOENT")}]]
    /\ UNCHANGED <<fs, alive>>
    /\ UNCHANGED single

\* The FS.unlink callback, lines 83-91.
ConcUnlinkDone(i) ==
    /\ alive
    /\ procs[i].pc = "unlink"
    /\ \E e \in UnlinkOutcomes(fs, procs[i].descriptor.path) :
        /\ fs' = Unlink(fs, procs[i].descriptor.path, e)
        /\ procs' = [procs EXCEPT ![i] =
                [@ EXCEPT !.pc = IF e # "ok" /\ RetryCondition(e) THEN "retry" ELSE "iterate",
                          !.issued = @ \cup {Call("unlink", procs[i].descriptor.path, e)}]]
    /\ UNCHANGED alive
    /\ UNCHANGED single

\* The FS.rm callback of the retry, lines 85-90.
ConcRetryDone(i) ==
    /\ alive
    /\ procs[i].pc = "retry"
    /\ \E e \in RmForceOutcomes(fs, procs[i].descriptor.path) :
        /\ fs' = RmForce(fs, procs[i].descriptor.path, e)
        /\ procs' = [procs EXCEPT ![i] =
                [@ EXCEPT !.pc = "iterate",
                          !.issued = @ \cup {Call("rm", procs[i].descriptor.path, e)}]]
    /\ UNCHANGED alive
    /\ UNCHANGED single

\* finalize() and the return of Remove, lines 96-104 and 117-125.
ConcFinalize(i) ==
    /\ alive
    /\ procs[i].pc = "finalize"
    /\ \E e \in PurgeOutcomes(fs, procs[i].target) :
        /\ fs' = RmRecursive(fs, procs[i].target, e)
        /\ alive' = ~EndsProcess(e)
        /\ procs' = [procs EXCEPT ![i] =
                [@ EXCEPT !.pc = IF e # "ok" THEN "crashed" ELSE "returned",
                          !.issued = @ \cup {Call("purge", procs[i].target, e)}]]
    /\ UNCHANGED single

ConcNext ==
    \/ \E i \in DOMAIN Targets : ConcRemoveCall(i)
    \/ \E i \in DOMAIN Targets : ConcDescriptors(i)
    \/ \E i \in DOMAIN Targets : ConcIterate(i)
    \/ \E i \in DOMAIN Targets : ConcProbe(i)
    \/ \E i \in DOMAIN Targets : ConcUnlinkDone(i)
    \/ \E i \in DOMAIN Targets : ConcRetryDone(i)
    \/ \E i \in DOMAIN Targets : ConcFinalize(i)

ConcSpec == ConcInit /\ [][ConcNext]_vars

\* The event loop runs every callback that is due while the process lives.
ConcFairSpec == ConcSpec /\ WF_vars(ConcNext)

\* Invocation i has stopped for a reason of its own: a callback of its own
\* threw, or the probe of one of its own leaves answered false.
OwnStop(i) == procs[i].pc \in {"crashed", "pending"}

\* C16 (as claimed): concurrent invocations on disjoint targets are
\* independent: under every interleaving each invocation that does not stop
\* for a reason of its own returns with its target absent, whatever happens
\* to the others.
C16_Independent ==
    \A i \in DOMAIN Targets :
        <>(OwnStop(i) \/ (procs[i].pc = "returned" /\ ~Exists(fs, procs[i].target)))

\* ----------------------------------------------------------- end of a clone
\* A promise is settled by the first resolve or reject; later ones are
\* ignored.
Settle(promise, how) == IF promise = "pending" THEN how ELSE promise

\* The handlers of Spawn's child process, clone.ts lines 142-171, in the
\* order they run when git ends with outcome o: "error" (reject) when git
\* could not be spawned, else "exit" (reject when the code is not 0); then
\* "close": reject when the code is not 0, and in every case log the
\* success message and resolve.
SpawnHandlers(c, o) ==
    LET first == IF o # "zero" THEN Settle(c.promise, "rejected") ELSE c.promise
        close == IF o # "zero" THEN Settle(first, "rejected") ELSE first
    IN  [promise |-> Settle(close, "resolved"), logged |-> TRUE, outcome |-> o]

\* Spawn's git has ended: its handlers run.
SpawnClose ==
    /\ alive
    /\ git = [strategy |-> "Spawn", state |-> "running"]
    /\ \E o \in GitOutcomes :
        clone' = SpawnHandlers(clone, o)
    /\ git' = [git EXCEPT !.state = "ended"]
    /\ UNCHANGED <<fs, pc, stack, location, descriptor, calls, result, issued,
                   attempts, settled, warned, crash, fs0, done, procs, alive, main>>

\* What follows `await command( "git", ... )` of a promisified execFile,
\* lines 248-262 and 338-352: the await throws when execFile reported an
\* error (a code other than 0, a signal, no spawn), which rejects the
\* strategy's promise; else the success message is logged and the
\* strategy returns.
Promisified(c, o) ==
    IF o # "zero"
    THEN [promise |-> Settle(c.promise, "rejected"), logged |-> FALSE, outcome |-> o]
    ELSE [promise |-> Settle(c.promise, "resolved"), logged |-> TRUE, outcome |-> o]

\* Execute's git has ended, lines 248-262.
ExecuteSettles ==
    /\ alive
    /\ git = [strategy |-> "Execute", state |-> "running"]
    /\ \E o \in GitOutcomes :
        clone' = Promisified(clone, o)
    /\ git' = [git EXCEPT !.state = "ended"]
    /\ UNCHANGED <<fs, pc, stack, location, descriptor, calls, result, issued,
                   attempts, settled, warned, crash, fs0, done, procs, alive, main>>

\* Shell's git has ended, lines 338-352.
ShellSettles ==
    /\ alive
    /\ git = [strategy |-> "Shell", state |-> "running"]
    /\ \E o \in GitOutcomes :
        clone' = Promisified(clone, o)
    /\ git' = [git EXCEPT !.state = "ended"]
    /\ UNCHANGED <<fs, pc, stack, location, descriptor, calls, result, issued,
                   attempts, settled, warned, crash, fs0, done, procs, alive, main>>

\* The execFile callback of Wrapper, lines 428-443: on an error it throws
\* (inside a callback: nobody catches it, the promise is never settled and
\* the process ends); else it resolves, the success message is logged and
\* the strategy returns.
WrapperCallback ==
    /\ alive
    /\ git = [strategy |-> "Wrapper", state |-> "running"]
    /\ \E o \in GitOutcomes :
        IF o # "zero"
        THEN /\ clone' = [clone EXCEPT !.outcome = o]
             /\ crash' = Call("execFile", Target, o)
             /\ alive' = ~EndsProcess(o)
        ELSE /\ clone' = [promise |-> Settle(clone.promise, "resolved"),
                          logged |-> TRUE, outcome |-> o]
             /\ UNCHANGED <<crash, alive>>
    /\ git' = [git EXCEPT !.state = "ended"]
    /\ UNCHANGED <<fs, pc, stack, location, descriptor, calls, result, issued,
                   attempts, settled, warned, fs0, done, procs, main>>

\* -------------------------------------------------------------------- Main
\* The checkout git writes while it runs: the destination directory with a
\* file in it.
Cloned(f) ==
    [p \in DOMAIN f |->
        IF p = Target THEN Plain("dir")
        ELSE IF p = LeafAt(0) THEN Plain("file")
        ELSE f[p]]

\* The running git process creates the destination.
GitWrites ==
    /\ alive
    /\ git.state = "running"
    /\ fs[Target].kind = "none"
    /\ fs' = Cloned(fs)
    /\ UNCHANGED <<pc, stack, location, descriptor, calls, result, issued, attempts,
                   settled, warned, crash, fs0, done, git, procs, alive, clone, main>>

\* Main at statement k of its try block (5: the finally block), about to
\* run it, with no Remove called for it yet.
Advance(m, k) ==
    [m EXCEPT !.at = k, !.phase = IF k = 5 THEN "entered" ELSE "ready", !.mark = calls]

\* Main, part_002 lines 23-38: the command line has selected any set of
\* strategies; the destination "test" is absent or left by an earlier run.
MainInit ==
    /\ \E root \in {NoNode, Plain("dir")}, spine \in [1..MaxDepth -> SpineNodes],
          leaf \in [0..(MaxDepth - 1) -> LeafNodes] :
            /\ fs = Tree(root, spine, leaf)
            /\ WellFormed(Tree(root, spine, leaf))
    /\ pc = "idle"
    /\ stack = <<>>
    /\ location = <<>>
    /\ descriptor = NoDescriptor
    /\ calls = 0
    /\ result = "none"
    /\ issued = {}
    /\ attempts = EmptyBag
    /\ settled = {}
    /\ warned = {}
    /\ crash = NoCrash
    /\ fs0 = fs
    /\ done = <<>>
    /\ git = NoGit
    /\ procs = [i \in DOMAIN Targets |-> IdleInv(Targets[i])]
    /\ alive = TRUE
    /\ clone = NoClone
    /\ \E selected \in SUBSET {Strategies[k] : k \in DOMAIN Strategies} :
        main = [NoMain EXCEPT !.at = 1, !.phase = "ready", !.cli = selected,
                              !.promise = "pending"]

\* `(CLI.X) && await X(...); state.results.x = true;` for a strategy that
\* was not selected, lines 41-51: nothing is awaited and the flag is set.
MainSkip ==
    /\ main.at \in 1..4
    /\ main.phase = "ready"
    /\ Strategies[main.at] \notin main.cli
    /\ main' = [Advance(main, main.at + 1) EXCEPT !.results[Flags[main.at]] = TRUE]
    /\ UNCHANGED <<fs, pc, stack, location, descriptor, calls, result, issued, attempts,
                   settled, warned, crash, fs0, done, git, procs, alive, clone>>

\* The same statement for a selected strategy: the strategy is called and
\* runs up to its `await Remove( directory )`.
MainCall ==
    /\ main.at \in 1..4
    /\ main.phase = "ready"
    /\ Strategies[main.at] \in main.cli
    /\ main' = [main EXCEPT !.phase = "entered", !.ran = @ \cup {Strategies[main.at]}]
    /\ UNCHANGED <<fs, pc, stack, location, descriptor, calls, result, issued, attempts,
                   settled, warned, crash, fs0, done, git, procs, alive, clone>>

\* The Remove of the strategy Main has called, clone.ts line 86 (and 215,
\* 305, 395), or of Main's finally block, part_002 line 58.
MainRemove ==
    /\ main.phase = "entered"
    /\ calls = main.mark
    /\ RemoveCall

\* The strategy Main has called starts git once its Remove has returned.
MainGit ==
    /\ main.at \in 1..4
    /\ main.phase = "entered"
    /\ calls = main.mark + 1
    /\ StartGit(Strategies[main.at])

\* The strategy's promise has resolved: Main sets the flag and goes on.
MainResume ==
    /\ main.at \in 1..4
    /\ main.phase = "entered"
    /\ clone.promise = "resolved"
    /\ main' = [Advance(main, main.at + 1) EXCEPT
                    !.results[Flags[main.at]] = TRUE,
                    !.succeeded = @ \cup {Strategies[main.at]}]
    /\ git' = NoGit
    /\ clone' = NoClone
    /\ UNCHANGED <<fs, pc, stack, location, descriptor, calls, result, issued, attempts,
                   settled, warned, crash, fs0, done, procs, alive>>

\* The strategy's promise has rejected: the catch block records the error
\* and the finally block is entered, lines 52-58.
MainCatch ==
    /\ main.at \in 1..4
    /\ main.phase = "entered"
    /\ clone.promise = "rejected"
    /\ main' = [Advance(main, 5) EXCEPT !.error = TRUE, !.failed = main.at]
    /\ git' = NoGit
    /\ clone' = NoClone
    /\ UNCHANGED <<fs, pc, stack, location, descriptor, calls, result, issued, attempts,
                   settled, warned, crash, fs0, done, procs, alive>>

\* After the Remove of the finally block, lines 61-64: the results are
\* logged and Main's promise is settled.
MainReport ==
    /\ main.at = 5
    /\ calls = main.mark + 1
    /\ pc = "returned"
    /\ main' = [main EXCEPT !.at = 6, !.phase = "reported",
                            !.promise = IF main.error THEN "rejected" ELSE "resolved"]
    /\ UNCHANGED <<fs, pc, stack, location, descriptor, calls, result, issued, attempts,
                   settled, warned, crash, fs0, done, git, procs, alive, clone>>

MainNext ==
    \/ MainSkip
    \/ MainCall
    \/ MainRemove
    \/ Descriptors
    \/ Iterate
    \/ Probe
    \/ UnlinkDone
    \/ RetryDone
    \/ Finalize
    \/ MainGit
    \/ GitWrites
    \/ SpawnClose
    \/ ExecuteSettles
    \/ ShellSettles
    \/ WrapperCallback
    \/ MainResume
    \/ MainCatch
    \/ MainReport

MainSpec == MainInit /\ [][MainNext]_vars

\* C22 (as claimed): once the git process of a strategy has ended, the
\* strategy's promise is settled; it is resolved, and the success message
\* logged, only if git ended with exit code 0 and no error, and it is
\* rejected otherwise.
C22_SettlesByOutcome ==
    git.state = "ended"
        => /\ clone.promise \in {"resolved", "rejected"}
           /\ clone.promise = "resolved" => clone.outcome = "zero"
           /\ clone.logged => clone.outcome = "zero"
           /\ clone.outcome # "zero" => clone.promise = "rejected"

\* C23 (as claimed): in the results Main reports, a strategy's flag is true
\* only if the strategy was selected and its clone completed successfully;
\* after the first failing strategy no later strategy has run and its flag
\* is false.
C23_FlagsTruthful ==
    main.phase = "reported"
        => /\ \A k \in DOMAIN Strategies :
                main.results[Flags[k]]
                    => Strategies[k] \in main.cli /\ Strategies[k] \in main.succeeded
           /\ main.failed # 0
                => \A k \in (main.failed + 1)..Len(Strategies) :
                        Strategies[k] \notin main.ran /\ ~main.results[Flags[k]]

====
